---- MODULE Spec2Model ----
(***************************************************************************)
(* Model of cmd/notify-mailer/main.go: the checkpointed batch mailer.     *)
(*                                                                         *)
(* Strings are sequences of byte values, so that trimming, splitting and   *)
(* byte-wise ordering are computed the way the Go library computes them.   *)
(* A Go slice is a (contents, capacity) pair: slicing beyond the length    *)
(* but within the capacity yields the zero-valued spare elements, slicing  *)
(* beyond the capacity is a run-time panic.                                *)
(***************************************************************************)
EXTENDS Integers, Sequences, FiniteSets, TLC

VARIABLES
    destinations,   \* mailer.destinations: the slice contents
    capacity,       \* cap(mailer.destinations)
    checkpoint,     \* mailer.checkpoint: [start, end]
    sleepInterval,  \* mailer.sleepInterval
    subject,        \* mailer.subject
    emailTemplate,  \* mailer.emailTemplate
    pc,             \* position of mailer.run: "idle", "ready", "loop", "done"
    i,              \* absolute index of the loop of mailer.run
    result,         \* what mailer.run returned (an error value, nil, or a panic)
    calls,          \* calls made on the mail client and clock by this process
    history,        \* calls made by earlier invocations over the same list
    runNo,          \* number of this invocation
    flags,          \* -start / -end of the first invocation
    prior,          \* what the previous invocation returned
    mode,           \* -emails: "emails" (raw addresses) or "ids" (descriptors)
    toBody,         \* contents of the -toFile file when it holds raw addresses
    contacts,       \* the descriptors read from -toFile otherwise
    db,             \* what the registrations table yields for each ID
    rpc,            \* position of resolveDestinations: "idle", "loop", "done"
    ri,             \* index of the loop of resolveDestinations (1-based)
    contactMap,     \* resolveDestinations' contactMap (its key set)
    lookups,        \* IDs passed to SelectOne, in call order
    resolved,       \* what resolveDestinations returned
    mpc,            \* position of main
    defers          \* main's deferred calls

jobVars == <<destinations, capacity, sleepInterval, subject, emailTemplate>>
runVars == <<checkpoint, pc, i, result, calls>>
opVars  == <<history, runNo, flags, prior>>
resVars == <<contacts, db, rpc, ri, contactMap, lookups, resolved>>
mainVars == <<mode, toBody, mpc, defers>>
vars    == <<jobVars, runVars, opVars, resVars, mainVars>>

----------------------------------------------------------------------------
(* Bounds of the model *)

MaxDests == 3   \* longest destination list
MaxSlack == 1   \* largest cap(destinations) - len(destinations)
MaxRuns  == 2   \* invocations over one list (the first run and its resumptions)
MaxContacts == 3   \* longest descriptor list
MaxIDs   == 2   \* registration IDs 1..MaxIDs
MaxBody  == 3   \* longest raw -toFile contents, in bytes

(* Program constants *)

DefaultEnd == 99999999   \* flag.Int("end", 99999999, ...)
DefaultSleep == 60       \* flag.Duration("sleep", 60*time.Second, ...), in seconds

(* Bytes: the space strings.TrimSpace strips and the "\n" main splits on. *)
(* The sample addresses are written with the letters 97 ('a') and 98 ('b'). *)
SP == 32
LF == 10

----------------------------------------------------------------------------
(* strings.TrimSpace, byte-wise comparison *)

IsSpace(c) == c \in {9, 10, 11, 12, 13, 32}

RECURSIVE TrimLeft(_)
TrimLeft(s) ==
    IF s = <<>> THEN s
    ELSE IF IsSpace(Head(s)) THEN TrimLeft(Tail(s)) ELSE s

RECURSIVE TrimRight(_)
TrimRight(s) ==
    IF s = <<>> THEN s
    ELSE IF IsSpace(s[Len(s)]) THEN TrimRight(SubSeq(s, 1, Len(s) - 1)) ELSE s

TrimSpace(s) == TrimRight(TrimLeft(s))

----------------------------------------------------------------------------
(* Error values.  An error is its kind, the underlying cause, and the     *)
(* addresses and list indices its text mentions.                          *)

NilErr == [kind |-> "nil", cause |-> "", addrs |-> {}, indices |-> {}]
Err(k) == [kind |-> k, cause |-> "", addrs |-> {}, indices |-> {}]
Panic  == Err("panic")
NoResult == Err("none")

Causes == {"smtp"}

\* The errors SendMail can return for a send to dest: the transport knows the
\* address it was given, never the position of that address in the list.
SendErrors(dest) ==
    { [kind |-> "transport", cause |-> c, addrs |-> a, indices |-> {}] :
        c \in Causes, a \in {{}, {dest}} }

----------------------------------------------------------------------------
(* interval.ok and mailer.ok *)

intervalOk_NoSentinel(iv) ==
    IF iv.start < 0 \/ iv.end < 0 THEN Err("interval_negative")
    ELSE IF iv.start > iv.end THEN Err("interval_start_gt_end")
    ELSE NilErr

intervalOk(iv) ==
    IF iv.start < 0 \/ iv.end < 0 THEN Err("interval_negative")
    ELSE IF iv.start > iv.end /\ iv.end # 0 THEN Err("interval_start_gt_end")
    ELSE NilErr

mailerOk_NoCountCheck(dests, cp, sleep) ==
    IF intervalOk(cp).kind # "nil" THEN intervalOk(cp)
    ELSE IF sleep < 0 THEN Err("negative_sleep")
    ELSE NilErr

mailerOk_SleepFirst(dests, cp, sleep) ==
    IF intervalOk(cp).kind # "nil" THEN intervalOk(cp)
    ELSE IF sleep < 0 THEN Err("negative_sleep")
    ELSE IF cp.start > Len(dests) THEN Err("start_gt_count")
    ELSE NilErr

mailerOk(dests, cp, sleep) ==
    IF intervalOk(cp).kind # "nil" THEN intervalOk(cp)
    ELSE IF cp.start > Len(dests) THEN Err("start_gt_count")
    ELSE IF sleep < 0 THEN Err("negative_sleep")
    ELSE NilErr

----------------------------------------------------------------------------
(* The slice expression m.destinations[start:end] and its elements *)

\* Go evaluates s[lo:hi] only when 0 <= lo <= hi <= cap(s); otherwise it panics.
SliceInRange(lo, hi, cap) == 0 <= lo /\ lo <= hi /\ hi <= cap

\* Element n (0-based) of the backing array: the list, then zero-valued strings.
Elem(n) == IF n < Len(destinations) THEN destinations[n + 1] ELSE <<>>

\* The end point the loop uses (line 84-86).
NormalEnd_Clamp(cp, dests) ==
    IF cp.end = 0 \/ cp.end > Len(dests) THEN Len(dests) ELSE cp.end

NormalEnd_Keep(cp, dests) == cp.end

NormalEnd(cp, dests) == IF cp.end = 0 THEN Len(dests) ELSE cp.end

\* The first index the loop visits (the low bound of the slice, line 87).
LoopFirst_Zero(cp) == 0

LoopFirst(cp) == cp.start

\* strings.TrimSpace(dest) == "" (line 88)
IsBlank_NoTrim(dest) == dest = <<>>

IsBlank(dest) == TrimSpace(dest) = <<>>

\* What the loop does with a SendMail error (lines 92-94): return it.
OnSendError_Continue(err) == [pc |-> "loop", result |-> NoResult, step |-> 1]

OnSendError(err) == [pc |-> "done", result |-> err, step |-> 0]

SendCall(dest, idx, ok) ==
    [op |-> "SendMail", to |-> <<dest>>, subject |-> subject,
     body |-> emailTemplate, idx |-> idx, ok |-> ok, d |-> 0]

SleepCall(dur) ==
    [op |-> "Sleep", to |-> <<>>, subject |-> "", body |-> "",
     idx |-> -1, ok |-> TRUE, d |-> dur]

\* Line 95: the clock calls that follow the successful send of entry idx of
\* a slice ending at last: one Sleep, whatever the position.
PaceAfterSend_None(idx, last) == <<>>

PaceAfterSend_NotLast(idx, last) ==
    IF idx + 1 < last THEN <<SleepCall(sleepInterval)>> ELSE <<>>

PaceAfterSend(idx, last) == <<SleepCall(sleepInterval)>>

----------------------------------------------------------------------------
(* mailer.run *)

\* Lines 79-87: validate, normalise the end point, take the slice.
RunStart ==
    /\ pc = "ready"
    /\ LET err == mailerOk(destinations, checkpoint, sleepInterval)
           e   == NormalEnd(checkpoint, destinations)
       IN  IF err.kind # "nil"
           THEN /\ result' = err
                /\ pc' = "done"
                /\ UNCHANGED <<checkpoint, i>>
           ELSE /\ checkpoint' = [checkpoint EXCEPT !.end = e]
                /\ IF SliceInRange(LoopFirst(checkpoint), e, capacity)
                   THEN /\ pc' = "loop"
                        /\ i' = LoopFirst(checkpoint)
                        /\ UNCHANGED result
                   ELSE /\ pc' = "done"
                        /\ result' = Panic
                        /\ UNCHANGED i
    /\ UNCHANGED <<calls, jobVars, opVars, resVars, mainVars>>

\* Lines 88-90: a blank entry is skipped.
LoopSkip ==
    /\ pc = "loop"
    /\ i < checkpoint.end
    /\ IsBlank(Elem(i))
    /\ i' = i + 1
    /\ UNCHANGED <<checkpoint, pc, result, calls, jobVars, opVars, resVars, mainVars>>

\* Lines 91-95, SendMail returned nil: sleep, next entry.
LoopSendOk ==
    /\ pc = "loop"
    /\ i < checkpoint.end
    /\ ~IsBlank(Elem(i))
    /\ calls' = calls \o <<SendCall(Elem(i), i, TRUE)>> \o PaceAfterSend(i, checkpoint.end)
    /\ i' = i + 1
    /\ UNCHANGED <<checkpoint, pc, result, jobVars, opVars, resVars, mainVars>>

\* Lines 91-94, SendMail returned an error.
LoopSendFail ==
    /\ pc = "loop"
    /\ i < checkpoint.end
    /\ ~IsBlank(Elem(i))
    /\ \E err \in SendErrors(Elem(i)) :
          LET o == OnSendError(err)
          IN  /\ calls' = calls \o <<SendCall(Elem(i), i, FALSE)>>
              /\ pc' = o.pc
              /\ result' = o.result
              /\ i' = i + o.step
    /\ UNCHANGED <<checkpoint, jobVars, opVars, resVars, mainVars>>

\* Line 97: the slice is exhausted.
RunReturn ==
    /\ pc = "loop"
    /\ i >= checkpoint.end
    /\ pc' = "done"
    /\ result' = NilErr
    /\ UNCHANGED <<checkpoint, i, calls, jobVars, opVars, resVars, mainVars>>

\* The operator's resumption after a failed send at index k: a new invocation
\* over the same list with -start k and the same -end.
Resume ==
    /\ pc = "done"
    /\ result.kind = "transport"
    /\ runNo < MaxRuns
    /\ calls # <<>>
    /\ LET k == calls[Len(calls)].idx
       IN  checkpoint' = [start |-> k, end |-> flags.end]
    /\ history' = history \o calls
    /\ calls' = <<>>
    /\ runNo' = runNo + 1
    /\ pc' = "ready"
    /\ result' = NoResult
    /\ i' = 0
    /\ UNCHANGED <<jobVars, flags, prior, resVars, mainVars>>

\* The operator's second invocation over the same list with the same -start
\* and -end set to the number of destinations instead of 0.
Repeat ==
    /\ pc = "done"
    /\ runNo = 1
    /\ flags.end = 0
    /\ checkpoint' = [start |-> flags.start, end |-> Len(destinations)]
    /\ history' = calls
    /\ prior' = [prior EXCEPT !.result = result]
    /\ calls' = <<>>
    /\ runNo' = 2
    /\ pc' = "ready"
    /\ result' = NoResult
    /\ i' = 0
    /\ UNCHANGED <<jobVars, flags, resVars, mainVars>>

----------------------------------------------------------------------------
(* sort.Strings: byte-wise ascending order *)

RECURSIVE StrLess(_, _)
StrLess(a, b) ==
    IF a = <<>> THEN b # <<>>
    ELSE IF b = <<>> THEN FALSE
    ELSE IF Head(a) < Head(b) THEN TRUE
    ELSE IF Head(a) > Head(b) THEN FALSE
    ELSE StrLess(Tail(a), Tail(b))

InsertSorted_Prepend(x, s) == <<x>> \o s

RECURSIVE InsertSorted(_, _)
InsertSorted(x, s) ==
    IF s = <<>> THEN <<x>>
    ELSE IF StrLess(Head(s), x) THEN <<Head(s)>> \o InsertSorted(x, Tail(s))
    ELSE <<x>> \o s

SortStrings_Noop(s) == s

RECURSIVE SortStrings(_)
SortStrings(s) ==
    IF s = <<>> THEN s ELSE InsertSorted(Head(s), SortStrings(Tail(s)))

----------------------------------------------------------------------------
(* updateEmail and resolveDestinations *)

IDs == 1 .. MaxIDs

Emails == {<<SP>>, <<97>>, <<97, 98>>, <<98>>}

\* One registration ID as a lookup finds it: whether the store answers, what
\* the contact column holds, and the address a "mailto" contact carries.
\*   "null"       no contact ('null'), or no registration with that ID
\*   "malformed"  contents for which UnmarshalEmail returns an error
\*   "empty"      contents that hold no address (Email becomes "")
\*   "mailto"     contents that hold the address email
Rows ==
    {[store |-> "error", contact |-> "null", email |-> <<>>]}
    \cup {[store |-> "ok", contact |-> c, email |-> <<>>] :
             c \in {"null", "malformed", "empty"}}
    \cup {[store |-> "ok", contact |-> "mailto", email |-> e] : e \in Emails}

\* Lines 113-122: SELECT ... WHERE contact != 'null' AND id = :id through
\* SelectOne, which returns an error when the store fails and when no row
\* matches (sql.ErrNoRows).
SelectOne(row) ==
    IF row.store = "error" THEN Err("select_error")
    ELSE IF row.contact = "null" THEN Err("no_rows")
    ELSE NilErr

\* Lines 123-124: contact.UnmarshalEmail(), its error and the Email it sets.
UnmarshalEmail(row) ==
    IF row.contact = "malformed"
    THEN [err |-> Err("unmarshal_error"), email |-> <<>>]
    ELSE [err |-> NilErr, email |-> row.email]

\* Lines 110-125: the error returned, and the descriptor as updated.
updateEmail(contact, dbMap) ==
    LET row == dbMap[contact.ID]
        u   == UnmarshalEmail(row)
    IN  IF SelectOne(row).kind # "nil"
        THEN [err |-> SelectOne(row), contact |-> contact]
        ELSE IF u.err.kind # "nil"
        THEN [err |-> u.err, contact |-> contact]
        ELSE [err |-> NilErr, contact |-> [contact EXCEPT !.Email = u.email]]

\* Lines 133-135: what the loop does with a lookup error: return nil, err.
OnLookupError_Continue(err) ==
    [rpc |-> "loop", step |-> 1,
     resolved |-> [err |-> NoResult, list |-> <<>>, isNil |-> TRUE]]

OnLookupError(err) ==
    [rpc |-> "done", step |-> 0,
     resolved |-> [err |-> err, list |-> <<>>, isNil |-> TRUE]]

\* The orders in which ranging over a map with key set S can visit the keys.
MapOrders(S) ==
    { s \in [1 .. Cardinality(S) -> S] : \A x \in S : \E n \in DOMAIN s : s[n] = x }

NotReturned == [err |-> NoResult, list |-> <<>>, isNil |-> TRUE]

\* Lines 131-135, updateEmail returned an error.
ResolveLookupFail ==
    /\ rpc = "loop"
    /\ ri <= Len(contacts)
    /\ LET u == updateEmail(contacts[ri], db)
           o == OnLookupError(u.err)
       IN  /\ u.err.kind # "nil"
           /\ lookups' = Append(lookups, contacts[ri].ID)
           /\ rpc' = o.rpc
           /\ ri' = ri + o.step
           /\ resolved' = o.resolved
    /\ UNCHANGED <<contacts, db, contactMap>>
    /\ UNCHANGED <<jobVars, runVars, opVars, mainVars>>

\* Lines 131-141, updateEmail returned nil.
ResolveLookupOk ==
    /\ rpc = "loop"
    /\ ri <= Len(contacts)
    /\ LET u == updateEmail(contacts[ri], db)
       IN  /\ u.err.kind = "nil"
           /\ lookups' = Append(lookups, contacts[ri].ID)
           /\ contacts' = [contacts EXCEPT ![ri] = u.contact]
           /\ contactMap' = IF IsBlank(u.contact.Email)
                            THEN contactMap
                            ELSE contactMap \cup {u.contact.Email}
           /\ ri' = ri + 1
    /\ UNCHANGED <<db, rpc, resolved>>
    /\ UNCHANGED <<jobVars, runVars, opVars, mainVars>>

\* Lines 143-149: the keys of the map, in the map's order, then sorted.
ResolveFinish ==
    /\ rpc = "loop"
    /\ ri > Len(contacts)
    /\ \E order \in MapOrders(contactMap) :
          resolved' = [err |-> NilErr, list |-> SortStrings(order),
                       isNil |-> order = <<>>]
    /\ rpc' = "done"
    /\ UNCHANGED <<contacts, db, ri, contactMap, lookups>>
    /\ UNCHANGED <<jobVars, runVars, opVars, mainVars>>

\* The non-blank emails the descriptors cs resolve to.
NonBlankEmails(cs, dbMap) ==
    {e \in {dbMap[cs[n].ID].email : n \in 1 .. Len(cs)} : ~IsBlank(e)}

\* The descriptor lists the input file can hold.
DescriptorLists ==
    LET ds == {[ID |-> id, Email |-> <<>>] : id \in 1 .. MaxIDs}
        lists[n \in 0 .. MaxContacts] ==
            IF n = 0 THEN {<<>>}
            ELSE lists[n - 1] \cup
                 {Append(l, d) : l \in {t \in lists[n - 1] : Len(t) = n - 1}, d \in ds}
    IN  lists[MaxContacts]

\* The operator's second resolution, over any descriptor list that resolves
\* to the same emails (the same descriptors permuted or repeated, or others).
ResolveAgain ==
    /\ rpc = "done"
    /\ runNo = 1
    /\ resolved.err.kind = "nil"
    /\ \E cs \in DescriptorLists :
          /\ \A n \in 1 .. Len(cs) : updateEmail(cs[n], db).err.kind = "nil"
          /\ NonBlankEmails(cs, db) = NonBlankEmails(contacts, db)
          /\ contacts' = cs
    /\ prior' = [prior EXCEPT !.resolved = resolved]
    /\ runNo' = 2
    /\ rpc' = "loop"
    /\ ri' = 1
    /\ contactMap' = {}
    /\ lookups' = <<>>
    /\ resolved' = NotReturned
    /\ UNCHANGED <<db, history, flags, jobVars, runVars, mainVars>>

----------------------------------------------------------------------------
(* main *)

\* strings.Split(s, "\n")
RECURSIVE SplitFrom(_, _, _)
SplitFrom(s, from, n) ==
    IF n > Len(s) THEN <<SubSeq(s, from, Len(s))>>
    ELSE IF s[n] = LF THEN <<SubSeq(s, from, n - 1)>> \o SplitFrom(s, n + 1, n + 1)
    ELSE SplitFrom(s, from, n + 1)

Split(s) == SplitFrom(s, 1, 1)

\* The capacities a list can have: strings.Split allocates exactly, append
\* may over-allocate, a nil slice has none.
SplitCaps(list) == {Len(list)}
AppendCaps(list) ==
    IF list = <<>> THEN {0} ELSE Len(list) .. (Len(list) + MaxSlack)

\* cmd.FailOnError(err, msg): returns when err is nil; otherwise the process
\* ends, and the functions main deferred are run on the way out.
FailOnError(err) == IF err.kind = "nil" THEN "return" ELSE "unwind"

\* Line 237-240: what main defers after a successful Connect.
DeferAfterConnect_None == <<>>

DeferAfterConnect == <<"Close">>

ClientCall(name, ok) ==
    [op |-> name, to |-> <<>>, subject |-> "", body |-> "",
     idx |-> -1, ok |-> ok, d |-> 0]

\* The deferred calls, run last-in first-out, as client calls.
\* ok: whether the deferred call returned nil (when it did not, the deferred
\* function ends the process through FailOnError, after the call).
RECURSIVE RunDeferred(_, _)
RunDeferred(ds, ok) ==
    IF ds = <<>> THEN <<>>
    ELSE <<ClientCall(ds[Len(ds)], ok)>> \o RunDeferred(SubSeq(ds, 1, Len(ds) - 1), ok)

\* Lines 201-204: the file holds raw addresses.
MainSplit ==
    /\ mpc = "read"
    /\ mode = "emails"
    /\ destinations' = Split(toBody)
    /\ capacity' \in SplitCaps(Split(toBody))
    /\ mpc' = "connect"
    /\ UNCHANGED <<sleepInterval, subject, emailTemplate, mode, toBody, defers>>
    /\ UNCHANGED <<runVars, opVars, resVars>>

\* Lines 205-212: the file holds descriptors; resolveDestinations is entered.
MainResolveCall ==
    /\ mpc = "read"
    /\ mode = "ids"
    /\ rpc = "idle"
    /\ rpc' = "loop"
    /\ mpc' = "resolve"
    /\ UNCHANGED <<contacts, db, ri, contactMap, lookups, resolved>>
    /\ UNCHANGED <<mode, toBody, defers, jobVars, runVars, opVars>>

\* Lines 212-213: resolveDestinations returned.
MainResolved ==
    /\ mpc = "resolve"
    /\ rpc = "done"
    /\ IF FailOnError(resolved.err) = "return"
       THEN /\ destinations' = resolved.list
            /\ capacity' \in AppendCaps(resolved.list)
            /\ mpc' = "connect"
            /\ UNCHANGED calls
       ELSE /\ mpc' = "exit"
            /\ calls' = calls \o RunDeferred(defers, TRUE)
            /\ UNCHANGED <<destinations, capacity>>
    /\ UNCHANGED <<sleepInterval, subject, emailTemplate, mode, toBody, defers>>
    /\ UNCHANGED <<checkpoint, pc, i, result, opVars, resVars>>

\* Lines 234-252: Connect, the deferred Close, the mailer.
MainConnect ==
    /\ mpc = "connect"
    /\ \E err \in {NilErr, Err("connect")} :
          IF FailOnError(err) = "return"
          THEN /\ calls' = Append(calls, ClientCall("Connect", TRUE))
               /\ defers' = defers \o DeferAfterConnect
               /\ pc' = "ready"
               /\ mpc' = "run"
          ELSE /\ calls' = Append(calls, ClientCall("Connect", FALSE)) \o RunDeferred(defers, TRUE)
               /\ mpc' = "exit"
               /\ UNCHANGED <<defers, pc>>
    /\ UNCHANGED <<mode, toBody, checkpoint, i, result>>
    /\ UNCHANGED <<jobVars, opVars, resVars>>

\* Lines 254-256: run returned or panicked; main ends and its deferred
\* functions run.
MainAfterRun ==
    /\ mpc = "run"
    /\ pc = "done"
    /\ \E closed \in BOOLEAN : calls' = calls \o RunDeferred(defers, closed)
    /\ mpc' = "exit"
    /\ UNCHANGED <<mode, toBody, defers, checkpoint, pc, i, result>>
    /\ UNCHANGED <<jobVars, opVars, resVars>>

----------------------------------------------------------------------------
(* Initial states *)

Addrs == {<<SP>>, <<97>>, <<98>>}

RECURSIVE SeqsUpTo(_, _)
SeqsUpTo(S, n) ==
    IF n = 0 THEN {<<>>}
    ELSE LET shorter == SeqsUpTo(S, n - 1)
         IN  shorter \cup { Append(s, x) : s \in {t \in shorter : Len(t) = n - 1}, x \in S }

Starts == -1 .. (MaxDests + 1)
Ends   == (-1 .. (MaxDests + MaxSlack)) \cup {DefaultEnd}
Sleeps == {-1, 0, 1}

NoDb == [id \in IDs |-> [store |-> "ok", contact |-> "empty", email |-> <<>>]]

NoPrior == [result |-> NoResult, resolved |-> NotReturned]

RunIdle ==
    /\ prior = NoPrior
    /\ pc = "idle"
    /\ i = 0
    /\ result = NoResult
    /\ calls = <<>>
    /\ history = <<>>
    /\ runNo = 1

ResolveIdle ==
    /\ contacts = <<>>
    /\ db = NoDb
    /\ rpc = "idle"
    /\ ri = 1
    /\ contactMap = {}
    /\ lookups = <<>>
    /\ resolved = NotReturned

\* mailer.run on every job a caller can assemble from a list this program builds.
Init ==
    /\ destinations \in SeqsUpTo(Addrs, MaxDests)
    /\ capacity \in AppendCaps(destinations)
    /\ checkpoint \in [start : Starts, end : Ends]
    /\ flags = checkpoint
    /\ sleepInterval \in Sleeps
    /\ subject = "subject"
    /\ emailTemplate = "body"
    /\ pc = "ready"
    /\ i = 0
    /\ result = NoResult
    /\ calls = <<>>
    /\ history = <<>>
    /\ runNo = 1
    /\ prior = NoPrior
    /\ ResolveIdle
    /\ mode = "emails"
    /\ toBody = <<>>
    /\ mpc = "run"
    /\ defers = <<>>

Next ==
    \/ RunStart
    \/ LoopSkip
    \/ LoopSendOk
    \/ LoopSendFail
    \/ RunReturn
    \/ Resume

Spec == Init /\ [][Next]_vars

\* mailer.run with -end 0, then again with -end set to the list length.
SentinelInit ==
    /\ destinations \in SeqsUpTo(Addrs, MaxDests)
    /\ capacity \in AppendCaps(destinations)
    /\ checkpoint \in [start : 0 .. Len(destinations), end : {0}]
    /\ flags = checkpoint
    /\ sleepInterval \in {0, 1}
    /\ subject = "subject"
    /\ emailTemplate = "body"
    /\ pc = "ready"
    /\ i = 0
    /\ result = NoResult
    /\ calls = <<>>
    /\ history = <<>>
    /\ runNo = 1
    /\ prior = NoPrior
    /\ ResolveIdle
    /\ mode = "emails"
    /\ toBody = <<>>
    /\ mpc = "run"
    /\ defers = <<>>

SentinelNext ==
    \/ RunStart
    \/ LoopSkip
    \/ LoopSendOk
    \/ LoopSendFail
    \/ RunReturn
    \/ Repeat

SentinelSpec == SentinelInit /\ [][SentinelNext]_vars

\* resolveDestinations on every descriptor list and registrations table.
ResolveInit ==
    /\ contacts \in SeqsUpTo({[ID |-> id, Email |-> <<>>] : id \in IDs}, MaxContacts)
    /\ db \in [IDs -> Rows]
    /\ rpc = "loop"
    /\ ri = 1
    /\ contactMap = {}
    /\ lookups = <<>>
    /\ resolved = NotReturned
    /\ destinations = <<>>
    /\ capacity = 0
    /\ checkpoint = [start |-> 0, end |-> 0]
    /\ flags = checkpoint
    /\ sleepInterval = 0
    /\ subject = "subject"
    /\ emailTemplate = "body"
    /\ RunIdle
    /\ mode = "ids"
    /\ toBody = <<>>
    /\ mpc = "resolve"
    /\ defers = <<>>

ResolveNext ==
    \/ ResolveLookupFail
    \/ ResolveLookupOk
    \/ ResolveFinish

ResolveSpec == ResolveInit /\ [][ResolveNext]_vars

\* resolveDestinations twice over registrations whose lookups succeed: on a
\* descriptor list, then on another that resolves to the same emails.
ReResolveInit ==
    /\ contacts \in DescriptorLists
    /\ db \in [IDs -> {r \in Rows : SelectOne(r).kind = "nil"
                                     /\ UnmarshalEmail(r).err.kind = "nil"}]
    /\ rpc = "loop"
    /\ ri = 1
    /\ contactMap = {}
    /\ lookups = <<>>
    /\ resolved = NotReturned
    /\ destinations = <<>>
    /\ capacity = 0
    /\ checkpoint = [start |-> 0, end |-> 0]
    /\ flags = checkpoint
    /\ sleepInterval = 0
    /\ subject = "subject"
    /\ emailTemplate = "body"
    /\ RunIdle
    /\ mode = "ids"
    /\ toBody = <<>>
    /\ mpc = "resolve"
    /\ defers = <<>>

ReResolveNext ==
    \/ ResolveLookupOk
    \/ ResolveFinish
    \/ ResolveAgain

ReResolveSpec == ReResolveInit /\ [][ReResolveNext]_vars

\* The whole of main, from the contents of -toFile to the exit.
MainFlags ==
    {[start |-> 0, end |-> 0], [start |-> 0, end |-> DefaultEnd],
     [start |-> 1, end |-> 0]}

MainInit ==
    /\ mode \in {"emails", "ids"}
    /\ IF mode = "emails"
       THEN /\ toBody \in SeqsUpTo({LF, SP, 97, 98}, MaxBody)
            /\ contacts = <<>>
            /\ db = NoDb
       ELSE /\ toBody = <<>>
            /\ contacts \in SeqsUpTo({[ID |-> id, Email |-> <<>>] : id \in IDs}, MaxContacts)
            /\ db \in [IDs -> Rows]
    /\ rpc = "idle"
    /\ ri = 1
    /\ contactMap = {}
    /\ lookups = <<>>
    /\ resolved = NotReturned
    /\ destinations = <<>>
    /\ capacity = 0
    /\ checkpoint \in MainFlags
    /\ flags = checkpoint
    /\ sleepInterval = DefaultSleep
    /\ subject = "subject"
    /\ emailTemplate = "body"
    /\ RunIdle
    /\ mpc = "read"
    /\ defers = <<>>

MainNext ==
    \/ MainSplit
    \/ MainResolveCall
    \/ ResolveLookupFail
    \/ ResolveLookupOk
    \/ ResolveFinish
    \/ MainResolved
    \/ MainConnect
    \/ RunStart
    \/ LoopSkip
    \/ LoopSendOk
    \/ LoopSendFail
    \/ RunReturn
    \/ MainAfterRun

MainSpec == MainInit /\ [][MainNext]_vars

----------------------------------------------------------------------------
(* Vocabulary of the properties, stated without the operators of the model *)

AllSpace(s) == \A n \in 1 .. Len(s) : s[n] \in {9, 10, 11, 12, 13, SP}

\* a sorts strictly before b, byte by byte
ByteLess(a, b) ==
    \E k \in 1 .. (Len(b)) :
        /\ k <= Len(a) + 1
        /\ \A m \in 1 .. (k - 1) : a[m] = b[m]
        /\ (k = Len(a) + 1 \/ a[k] < b[k])

IsSend(c) == c.op = "SendMail"
Sends(cs) == SelectSeq(cs, IsSend)
CountOp(name) == Cardinality({n \in 1 .. Len(calls) : calls[n].op = name})

ValidationKinds ==
    {"interval_negative", "interval_start_gt_end", "start_gt_count", "negative_sleep"}

\* The job as the claims describe it: valid, or not.
IntervalInvalid(cp) == cp.start < 0 \/ cp.end < 0 \/ (cp.start > cp.end /\ cp.end # 0)
JobInvalid ==
    \/ IntervalInvalid(checkpoint)
    \/ checkpoint.start > Len(destinations)
    \/ sleepInterval < 0

\* The end point the first invocation was given, 0 read as the list length.
GivenEnd == IF flags.end = 0 THEN Len(destinations) ELSE flags.end

\* A registration whose lookup is to succeed: the store answers and the
\* contact column holds an address or nothing.
RowOk(row) == row.store = "ok" /\ row.contact \in {"empty", "mailto"}

\* The error a lookup of the registration is to return.
RowErrKind(row) ==
    IF row.store = "error" THEN "select_error"
    ELSE IF row.contact = "null" THEN "no_rows"
    ELSE IF row.contact = "malformed" THEN "unmarshal_error"
    ELSE "nil"

----------------------------------------------------------------------------
(* C1: for every job that passes validation, also one whose end exceeds    *)
(* the number of destinations (the default -end 99999999), mailer.run      *)
(* finishes by returning success or an error and never faults on an       *)
(* out-of-range index.                                                     *)
C1_RunNeverFaults ==
    (pc = "done" /\ ~JobInvalid) => result.kind \in {"nil", "transport"}

----------------------------------------------------------------------------
(* C2: when the interval is invalid, or start exceeds the number of        *)
(* destinations, or the pacing is negative, mailer.run returns an error    *)
(* and makes no SendMail call and no Sleep call.                           *)
C2_InvalidJobNoCalls ==
    JobInvalid =>
        /\ calls = <<>>
        /\ pc \in {"ready", "done"}
        /\ pc = "done" => result.kind \in ValidationKinds

C2_Witness ==
    /\ pc = "done"
    /\ ~IntervalInvalid(checkpoint)
    /\ sleepInterval >= 0
    /\ checkpoint.start > Len(destinations)
    /\ checkpoint.start <= capacity
    /\ result.kind = "start_gt_count"

----------------------------------------------------------------------------
(* C3: fail-fast.  A failed SendMail is the last call of its run: the run  *)
(* has returned an error at once, no later index is attempted, the failed  *)
(* address is not retried and no Sleep follows.                            *)
C3_FailFast ==
    \A n \in 1 .. Len(calls) :
        (calls[n].op = "SendMail" /\ ~calls[n].ok) =>
            /\ n = Len(calls)
            /\ pc = "done"
            /\ result.kind = "transport"
            /\ \A m \in 1 .. (n - 1) : calls[m].op = "SendMail" => calls[m].idx < calls[n].idx

C3_Witness ==
    /\ pc = "done"
    /\ result.kind = "transport"
    /\ Len(calls) = 3
    /\ calls[1].ok /\ calls[1].idx = 0
    /\ ~calls[3].ok /\ calls[3].idx = 1
    /\ checkpoint.end = 3
    /\ Len(destinations) = 3
    /\ ~AllSpace(destinations[3])

----------------------------------------------------------------------------
(* C4: resume.  After a run failed at index k, the run with start = k and  *)
(* the same end sends nothing below k, sends D[k] first, and if it         *)
(* succeeds every non-blank entry of the range first selected has been     *)
(* sent successfully exactly once over all the runs.                       *)
OkSendsAt(n) ==
    LET all == history \o calls
    IN  Cardinality({m \in 1 .. Len(all) :
                        all[m].op = "SendMail" /\ all[m].ok /\ all[m].idx = n})

C4_Resume ==
    runNo > 1 =>
        LET k == history[Len(history)].idx
        IN  /\ \A n \in 1 .. Len(calls) : calls[n].op = "SendMail" => calls[n].idx >= k
            /\ calls # <<>> =>
                  /\ calls[1].op = "SendMail"
                  /\ calls[1].idx = k
                  /\ calls[1].to = <<destinations[k + 1]>>
            /\ pc = "done" => calls # <<>>
            /\ (pc = "done" /\ result.kind = "nil") =>
                  \A n \in flags.start .. (GivenEnd - 1) :
                      (n < Len(destinations) /\ ~AllSpace(destinations[n + 1]))
                          => OkSendsAt(n) = 1

C4_Witness ==
    /\ runNo = 2
    /\ pc = "done"
    /\ result.kind = "nil"
    /\ flags.start = 0
    /\ Len(history) = 3
    /\ history[3].idx = 1
    /\ Len(Sends(calls)) = 2

----------------------------------------------------------------------------
(* C5: when mailer.run returns success, its SendMail calls are exactly the *)
(* entries of destinations[start:end] (end 0 read as the list length) that *)
(* are not empty after trimming, in list order, each a single-address call *)
(* with the job's subject and body; whitespace-only entries cause no call  *)
(* and do not stop the run.                                                *)
RECURSIVE ExpectedSends(_, _)
ExpectedSends(from, to) ==
    IF from >= to THEN <<>>
    ELSE IF from < Len(destinations) /\ ~AllSpace(destinations[from + 1])
         THEN <<[op |-> "SendMail", to |-> <<destinations[from + 1]>>,
                 subject |-> subject, body |-> emailTemplate,
                 idx |-> from, ok |-> TRUE, d |-> 0]>>
              \o ExpectedSends(from + 1, to)
         ELSE ExpectedSends(from + 1, to)

C5_SuccessSendsSelectedRange ==
    (pc = "done" /\ result.kind = "nil") =>
        Sends(calls) = ExpectedSends(checkpoint.start, GivenEnd)

C5_Witness ==
    /\ pc = "done"
    /\ result.kind = "nil"
    /\ runNo = 1
    /\ Len(Sends(calls)) = 2
    /\ checkpoint.start = 0
    /\ Len(destinations) = 3
    /\ AllSpace(destinations[2])
    /\ flags.end = 0

----------------------------------------------------------------------------
(* C6: in a successful run over the whole list (start = 0, end = 0) every  *)
(* distinct recipient address of the input receives exactly one SendMail   *)
(* call, for a file of raw addresses and for a file of descriptors.        *)
InputRecipients ==
    IF mode = "emails"
    THEN {a \in {Split(toBody)[n] : n \in 1 .. Len(Split(toBody))} : ~AllSpace(a)}
    ELSE {a \in {db[contacts[n].ID].email : n \in 1 .. Len(contacts)} : ~AllSpace(a)}

C6_EachRecipientOnce ==
    (mpc = "exit" /\ pc = "done" /\ result.kind = "nil"
        /\ flags = [start |-> 0, end |-> 0]) =>
        \A a \in InputRecipients :
            Cardinality({n \in 1 .. Len(calls) :
                            calls[n].op = "SendMail" /\ calls[n].to = <<a>>}) = 1

----------------------------------------------------------------------------
----------------------------------------------------------------------------
(* C8: when SendMail fails, the error mailer.run returns identifies the    *)
(* failing destination address and its index, together with the           *)
(* transport's cause.                                                      *)
C8_ErrorIdentifiesDestination ==
    (pc = "done" /\ result.kind = "transport") =>
        LET failed == calls[Len(calls)]
        IN  /\ result.cause \in Causes
            /\ failed.to[1] \in result.addrs
            /\ failed.idx \in result.indices

----------------------------------------------------------------------------
(* C9: when every lookup succeeds, resolveDestinations returns a list in   *)
(* strictly ascending byte-wise order (so without duplicates), without     *)
(* entries that are blank after trimming, whose entries are exactly the    *)
(* non-blank emails the descriptors resolve to.                            *)
ResolvedEmails ==
    {a \in {db[contacts[n].ID].email : n \in 1 .. Len(contacts)} : ~AllSpace(a)}

C9_ResolvedListSortedUnique ==
    (rpc = "done" /\ \A n \in 1 .. Len(contacts) : RowOk(db[contacts[n].ID])) =>
        LET L == resolved.list
        IN  /\ resolved.err.kind = "nil"
            /\ \A n \in 1 .. (Len(L) - 1) : ByteLess(L[n], L[n + 1])
            /\ \A n \in 1 .. Len(L) : ~AllSpace(L[n])
            /\ {L[n] : n \in 1 .. Len(L)} = ResolvedEmails

C9_Witness ==
    /\ rpc = "done"
    /\ resolved.err.kind = "nil"
    /\ Len(contacts) = 3
    /\ resolved.list = << <<97>>, <<97, 98>> >>
    /\ contacts[1].Email = <<97, 98>>
    /\ contacts[2].Email = <<97>>
    /\ contacts[3].Email = <<97>>

----------------------------------------------------------------------------
(* C10: resolveDestinations looks descriptors up in input order, one       *)
(* lookup each; when the lookup of descriptor i fails it returns that      *)
(* error and no list, and looks up no later descriptor; when none fails    *)
(* it makes exactly one lookup per descriptor.                             *)
LookupFails(n) == ~RowOk(db[contacts[n].ID])
FailingLookups == {n \in 1 .. Len(contacts) : LookupFails(n)}
FirstFailing == CHOOSE n \in FailingLookups : \A m \in FailingLookups : n <= m

C10_LookupsInOrderFailFast ==
    /\ Len(lookups) <= Len(contacts)
    /\ \A n \in 1 .. Len(lookups) : lookups[n] = contacts[n].ID
    /\ FailingLookups # {} => Len(lookups) <= FirstFailing
    /\ rpc = "done" =>
          IF FailingLookups # {}
          THEN /\ Len(lookups) = FirstFailing
               /\ resolved.err.kind = RowErrKind(db[contacts[FirstFailing].ID])
               /\ resolved.isNil
               /\ resolved.list = <<>>
          ELSE /\ Len(lookups) = Len(contacts)
               /\ resolved.err.kind = "nil"

C10_Witness ==
    /\ rpc = "done"
    /\ Len(contacts) = 3
    /\ Len(lookups) = 2
    /\ resolved.err.kind = "select_error"
    /\ contacts[1].Email = <<97>>
    /\ resolved.isNil

----------------------------------------------------------------------------
(* C11: a descriptor whose contact is absent or empty, or whose email is   *)
(* blank, is skipped without an error: resolveDestinations succeeds and    *)
(* returns the emails of all the other descriptors.  (Stated for the       *)
(* store answering and no contact that UnmarshalEmail rejects.)            *)
C11_BlankContactsSkipped ==
    (rpc = "done" /\ \A n \in 1 .. Len(contacts) :
                        /\ db[contacts[n].ID].store = "ok"
                        /\ db[contacts[n].ID].contact \in {"null", "empty", "mailto"}) =>
        /\ resolved.err.kind = "nil"
        /\ {resolved.list[n] : n \in 1 .. Len(resolved.list)} = ResolvedEmails

----------------------------------------------------------------------------
(* C12: pacing.  Exactly one Sleep of the job's pacing lies between two    *)
(* consecutive successful SendMail calls, no Sleep precedes the first      *)
(* send, and a skipped whitespace-only entry causes no Sleep (every Sleep  *)
(* directly follows a successful send).                                    *)
C12_Pacing ==
    \A n \in 1 .. Len(calls) :
        /\ calls[n].op = "Sleep" =>
              /\ n > 1
              /\ calls[n - 1].op = "SendMail"
              /\ calls[n - 1].ok
              /\ calls[n].d = sleepInterval
        /\ (calls[n].op = "SendMail" /\ n > 1) =>
              /\ n > 2
              /\ calls[n - 1].op = "Sleep"
              /\ calls[n - 2].op = "SendMail"

C12_Witness ==
    /\ pc = "done"
    /\ result.kind = "nil"
    /\ sleepInterval = 1
    /\ Len(destinations) = 3
    /\ AllSpace(destinations[2])
    /\ Len(calls) = 4
    /\ calls[1].idx = 0
    /\ calls[3].idx = 2

----------------------------------------------------------------------------
(* C13: interval.ok returns an error exactly when start < 0, or end < 0,   *)
(* or start > end with end # 0; for every other pair it returns no error;  *)
(* it does not modify the interval.                                        *)
IntervalKinds == {"interval_negative", "interval_start_gt_end"}

C13_IntervalOk ==
    pc # "ready" =>
        /\ result.kind \in IntervalKinds <=> IntervalInvalid(checkpoint)
        /\ result.kind \in IntervalKinds => checkpoint = flags
        /\ result.kind = "interval_negative" <=> (checkpoint.start < 0 \/ checkpoint.end < 0)

C13_Witness ==
    /\ pc = "done"
    /\ result.kind = "interval_start_gt_end"
    /\ checkpoint = [start |-> 2, end |-> 1]
    /\ Len(destinations) = 3
    /\ sleepInterval = 0

----------------------------------------------------------------------------
(* C17: the validation checks run in a fixed order.  Of several violated   *)
(* conditions mailer.ok reports the interval first, start beyond the       *)
(* number of destinations only for a valid interval, and negative pacing   *)
(* only when both earlier checks pass.                                     *)
C17_ValidationOrder ==
    (pc = "done" /\ JobInvalid) =>
        IF IntervalInvalid(checkpoint) THEN result.kind \in IntervalKinds
        ELSE IF checkpoint.start > Len(destinations) THEN result.kind = "start_gt_count"
        ELSE result.kind = "negative_sleep"

C17_Witness ==
    /\ pc = "done"
    /\ ~IntervalInvalid(checkpoint)
    /\ checkpoint.start > Len(destinations)
    /\ sleepInterval < 0
    /\ result.kind = "start_gt_count"

----------------------------------------------------------------------------
(* C18: in every run the number of Sleep calls equals the number of        *)
(* successful SendMail calls: the code sleeps after every successful send, *)
(* the last of the slice included, so a successful run that sent anything  *)
(* returns only after a final Sleep.                                       *)
OkSendCount ==
    Cardinality({n \in 1 .. Len(calls) : calls[n].op = "SendMail" /\ calls[n].ok})

C18_SleepAfterEverySend ==
    /\ CountOp("Sleep") = OkSendCount
    /\ (pc = "done" /\ result.kind = "nil" /\ calls # <<>>) =>
          calls[Len(calls)].op = "Sleep"

C18_Witness ==
    /\ pc = "done"
    /\ result.kind = "nil"
    /\ Len(calls) = 4
    /\ calls[3].op = "SendMail"
    /\ calls[3].idx = checkpoint.end - 1
    /\ calls[4].op = "Sleep"

----------------------------------------------------------------------------
(* C16: mailer.run leaves the destination list, checkpoint.start, the      *)
(* pacing, the subject and the body unchanged in every outcome; it changes *)
(* only checkpoint.end, on entry, from 0 to the number of destinations,    *)
(* and not at all when validation fails.  (A step to pc = "ready" is a new *)
(* invocation, not a step of run.)                                         *)
C16_RunFrame ==
    [][pc' # "ready" =>
          /\ UNCHANGED <<destinations, capacity, sleepInterval, subject, emailTemplate>>
          /\ checkpoint'.start = checkpoint.start
          /\ checkpoint'.end # checkpoint.end =>
                /\ pc = "ready"
                /\ checkpoint.end = 0
                /\ checkpoint'.end = Len(destinations)
          /\ result'.kind \in ValidationKinds => checkpoint' = checkpoint]_vars

C16_Witness ==
    /\ pc = "done"
    /\ result.kind = "nil"
    /\ runNo = 1
    /\ flags = [start |-> 1, end |-> 0]
    /\ checkpoint = [start |-> 1, end |-> 3]
    /\ Len(destinations) = 3
    /\ Len(calls) = 4

----------------------------------------------------------------------------
(* C14: end sentinel.  For every list D and start in 0..len(D), the run    *)
(* with end = 0 processes exactly the indices [start, len(D)), and the run *)
(* with end = len(D) makes the same SendMail and Sleep calls and returns   *)
(* the same result whenever the transport answers its sends the same way.  *)
SendOutcomes(cs) == [n \in 1 .. Len(Sends(cs)) |-> Sends(cs)[n].ok]

C14_EndSentinel ==
    /\ (runNo = 1 /\ pc # "ready") =>
          /\ checkpoint.end = Len(destinations)
          /\ result.kind \in {"none", "nil", "transport"}
          /\ \A n \in 1 .. Len(calls) :
                calls[n].op = "SendMail" =>
                    (flags.start <= calls[n].idx /\ calls[n].idx < Len(destinations))
          /\ (pc = "done" /\ result.kind = "nil") => i = Len(destinations)
    /\ (runNo = 2 /\ pc = "done" /\ SendOutcomes(calls) = SendOutcomes(history)) =>
          /\ calls = history
          /\ result.kind = prior.result.kind

C14_Witness ==
    /\ runNo = 2
    /\ pc = "done"
    /\ flags = [start |-> 1, end |-> 0]
    /\ checkpoint = [start |-> 1, end |-> 3]
    /\ Len(destinations) = 3
    /\ result.kind = "transport"
    /\ prior.result.kind = "transport"
    /\ Len(calls) = 3
    /\ calls = history

----------------------------------------------------------------------------
(* C15: the result of resolveDestinations depends only on the set of       *)
(* emails the descriptors resolve to: a second resolution over the same    *)
(* descriptors permuted or repeated, or over any list resolving to the     *)
(* same emails, returns the identical list.                                *)
C15_ResolutionDependsOnEmailSet ==
    (runNo = 2 /\ rpc = "done") => resolved = prior.resolved

C15_Witness ==
    /\ runNo = 2
    /\ rpc = "done"
    /\ Len(contacts) = 3
    /\ Len(resolved.list) = 2
    /\ contacts[1].Email = resolved.list[2]
    /\ contacts[2].Email = resolved.list[1]
    /\ contacts[3].Email = resolved.list[2]
    /\ resolved = prior.resolved

====
